---- MODULE Spec2Model ----
(***************************************************************************)
(* A model of gnucashxml.py: the construction of a Book from the elements  *)
(* of a GnuCash document (_book_from_tree and the builders it calls), the  *)
(* breadth-first account walk, find_account, the two ledger reports and    *)
(* the slot decoder.                                                       *)
(*                                                                         *)
(* Objects live in heaps: a Commodity, Account, Transaction or Split is    *)
(* the index of its record in commodityObj, acct, trnObj or splitObj, so   *)
(* that "the same instance" is equality of indices.  The document is held  *)
(* as the four element lists that tree.findall() hands to the loops of     *)
(* _book_from_tree; findall groups the elements by tag, so the relative    *)
(* document order of elements of different kinds never reaches the code.   *)
(***************************************************************************)
EXTENDS Integers, Sequences, FiniteSets, TLC

\* ------------------------------------------------------------------ bounds
MaxAccounts == 4      \* account elements of a document (tree specifications)
MaxRefAccounts == 3   \* account elements, identifiers free to repeat
MaxPermAccounts == 3  \* account elements, in every order
MaxDecls == 2         \* top-level commodity declarations
MaxRefPrices == 2     \* price records naming commodities
MaxPrices == 3        \* price records with dates
MaxTrns == 2          \* transaction elements
MaxSplits == 2        \* split elements of a document
MaxDate == 3          \* distinct posting dates / price timestamps
MaxSlots == 3         \* slot elements of one slots document
MaxDepth == 2         \* nesting depth of frame slots

\* Python's None, for every optional reference (object indices start at 1).
None == 0

SeqsUpTo(S, n) == UNION {[1..k -> S] : k \in 0..n}

USD == <<"CURRENCY", "USD">>
EUR == <<"CURRENCY", "EUR">>

Names == {"a", "b"}
States == {"n", "c", "y"}
Dates == 1..MaxDate

VARIABLES
  doc_commodities,   \* tree.findall(gnc:commodity): <<space, name>> pairs
  doc_prices,        \* pricedb.findall(price): [commodity, currency, date]
  doc_accounts,      \* tree.findall(gnc:account): [guid, actype, parent, name, commodity]
  doc_transactions,  \* tree.findall(gnc:transaction): [currency, date, splits]
  pc,                \* position in _book_from_tree
  i, j,              \* loop positions: element of the current loop, split of the transaction
  commodityObj,      \* heap of Commodity instances
  commoditydict,     \* (space, name) -> Commodity
  commodities,       \* the declared commodities, in order
  prices,            \* the Price objects, in order
  acct,              \* heap of Account instances
  accountdict,       \* guid -> Account
  accountkeys,       \* insertion order of accountdict's keys
  parentdict,        \* guid -> parent guid
  root_account,
  accounts,          \* the accounts linked by pass 2, in order
  trnObj,            \* heap of Transaction instances
  transactions,      \* the completed transactions, in order
  splitObj,          \* heap of Split instances
  book,              \* the Book returned by _book_from_tree, NoBook before
  exc,               \* the exception that ended _book_from_tree, NoExc if none
  call,              \* the consumer's current operation on the Book and its result
  slotdoc, slotstack, slotres  \* the slot decoder (SlotSpec)

docvars == <<doc_commodities, doc_prices, doc_accounts, doc_transactions>>
parsevars == <<pc, i, j, commodityObj, commoditydict, commodities, prices, acct,
               accountdict, accountkeys, parentdict, root_account, accounts,
               trnObj, transactions, splitObj, book, exc>>
slotvars == <<slotdoc, slotstack, slotres>>
vars == <<docvars, parsevars, call, slotvars>>

\* ------------------------------------------------------------- dictionaries
EmptyDict == [k \in {} |-> None]
DictSet(d, k, v) == [x \in DOMAIN d \cup {k} |-> IF x = k THEN v ELSE d[x]]
\* dict insertion order: an overwritten key keeps its place
KeysAdd(keys, k) == IF \E n \in 1..Len(keys) : keys[n] = k THEN keys ELSE Append(keys, k)

\* --------------------------------------------------------------- commodities
\* Commodity(name, space): a fresh instance at the end of the heap
NewCommodity(objs, key) == Append(objs, [space |-> key[1], name |-> key[2]])

\* _commodity_find: setdefault((space, name), Commodity(...)).  The argument is
\* constructed before setdefault runs, so an instance is allocated either way;
\* the result is the registered instance when the key is present.
commodity_find_bypass(objs, dict, key) ==
  [objs |-> NewCommodity(objs, key), dict |-> DictSet(dict, key, Len(objs) + 1),
   ret |-> Len(objs) + 1]
commodity_find(objs, dict, key) ==
  LET objs2 == NewCommodity(objs, key) IN
  IF key \in DOMAIN dict
  THEN [objs |-> objs2, dict |-> dict, ret |-> dict[key]]
  ELSE [objs |-> objs2, dict |-> DictSet(dict, key, Len(objs2)), ret |-> Len(objs2)]

\* commoditydict[(space, name)] in _account_from_tree and _transaction_from_tree:
\* a plain subscript, KeyError when the pair is not registered.
commodity_lookup_create(objs, dict, key) ==
  LET r == commodity_find(objs, dict, key) IN
  [ok |-> TRUE, objs |-> r.objs, dict |-> r.dict, ret |-> r.ret]
commodity_lookup(objs, dict, key) ==
  IF key \in DOMAIN dict
  THEN [ok |-> TRUE, objs |-> objs, dict |-> dict, ret |-> dict[key]]
  ELSE [ok |-> FALSE, objs |-> objs, dict |-> dict, ret |-> None]

NoBook == [built |-> FALSE]
NoExc == [type |-> "none"]
NoCall == [op |-> "none"]

\* --------------------------------------------------------- _book_from_tree
\* an exception leaves _book_from_tree: nothing is returned.  at is the
\* function whose subscript failed.
Raise(type, at) ==
         /\ pc' = "error"
         /\ exc' = [type |-> type, at |-> at]
         /\ UNCHANGED <<i, j, commodityObj, commoditydict, commodities, prices, acct,
                        accountdict, accountkeys, parentdict, root_account, accounts,
                        trnObj, transactions, splitObj, book>>

\* for child in tree.findall(gnc:commodity): the declaration overwrites the
\* registry entry and is appended to the declared list
CommodityFromTree ==
  /\ pc = "commodities"
  /\ IF i > Len(doc_commodities)
     THEN /\ pc' = "prices"
          /\ i' = 1
          /\ UNCHANGED <<commodityObj, commoditydict, commodities>>
     ELSE LET key == doc_commodities[i]
              objs2 == NewCommodity(commodityObj, key) IN
          /\ commodityObj' = objs2
          /\ commoditydict' = DictSet(commoditydict, key, Len(objs2))
          /\ commodities' = Append(commodities, Len(objs2))
          /\ i' = i + 1
          /\ pc' = pc
  /\ UNCHANGED <<j, prices, acct, accountdict, accountkeys, parentdict, root_account,
                 accounts, trnObj, transactions, splitObj, book, exc>>
  /\ UNCHANGED <<docvars, call, slotvars>>

\* for child in t.findall('price'): currency first, then commodity
PriceFromTree ==
  /\ pc = "prices"
  /\ IF i > Len(doc_prices)
     THEN /\ pc' = "accounts"
          /\ i' = 1
          /\ UNCHANGED <<commodityObj, commoditydict, prices>>
     ELSE LET elt == doc_prices[i]
              cur == commodity_find(commodityObj, commoditydict, elt.currency)
              com == commodity_find(cur.objs, cur.dict, elt.commodity) IN
          /\ commodityObj' = com.objs
          /\ commoditydict' = com.dict
          /\ prices' = Append(prices, [commodity |-> com.ret, currency |-> cur.ret,
                                       date |-> elt.date])
          /\ i' = i + 1
          /\ pc' = pc
  /\ UNCHANGED <<j, commodities, acct, accountdict, accountkeys, parentdict,
                 root_account, accounts, trnObj, transactions, splitObj, book, exc>>
  /\ UNCHANGED <<docvars, call, slotvars>>

\* pass 1: _account_from_tree, then the three bookkeeping assignments
AccountFromTree ==
  /\ pc = "accounts"
  /\ UNCHANGED <<docvars, call, slotvars>>
  /\ IF i > Len(doc_accounts)
     THEN /\ pc' = "link"
          /\ i' = 1
          /\ UNCHANGED <<j, commodityObj, commoditydict, commodities, prices, acct,
                         accountdict, accountkeys, parentdict, root_account, accounts,
                         trnObj, transactions, splitObj, book, exc>>
     ELSE LET elt == doc_accounts[i]
              isRoot == elt.actype = "ROOT"
              com == IF isRoot
                     THEN [ok |-> TRUE, objs |-> commodityObj, dict |-> commoditydict,
                           ret |-> None]
                     ELSE commodity_lookup(commodityObj, commoditydict, elt.commodity)
              parent_guid == IF isRoot THEN None ELSE elt.parent
              acc == Len(acct) + 1 IN
          IF ~com.ok
          THEN Raise("KeyError", "_account_from_tree")
          ELSE /\ acct' = Append(acct, [name |-> elt.name, guid |-> elt.guid,
                                        actype |-> elt.actype, parent |-> None,
                                        children |-> << >>, commodity |-> com.ret,
                                        splits |-> << >>])
               /\ commodityObj' = com.objs
               /\ commoditydict' = com.dict
               /\ root_account' = IF isRoot THEN acc ELSE root_account
               /\ accountdict' = DictSet(accountdict, elt.guid, acc)
               /\ accountkeys' = KeysAdd(accountkeys, elt.guid)
               /\ parentdict' = DictSet(parentdict, elt.guid, parent_guid)
               /\ i' = i + 1
               /\ pc' = pc
               /\ UNCHANGED <<j, commodities, prices, accounts, trnObj, transactions,
                              splitObj, book, exc>>

\* the test of pass 2: acc.parent is None and acc.actype != 'ROOT'.  The heap
\* index of an account is the position of its element in the document.
NeedsParentIfDeclaredBefore(acc) ==
  /\ acct[acc].parent = None /\ acct[acc].actype # "ROOT"
  /\ \E p \in 1..(acc - 1) : acct[p].guid = parentdict[acct[acc].guid]
NeedsParent(acc) == acct[acc].parent = None /\ acct[acc].actype # "ROOT"

\* pass 2: for acc in list(accountdict.values())
LinkAccount ==
  /\ pc = "link"
  /\ UNCHANGED <<docvars, call, slotvars>>
  /\ IF i > Len(accountkeys)
     THEN /\ pc' = "transactions"
          /\ i' = 1
          /\ UNCHANGED <<j, commodityObj, commoditydict, commodities, prices, acct,
                         accountdict, accountkeys, parentdict, root_account, accounts,
                         trnObj, transactions, splitObj, book, exc>>
     ELSE LET acc == accountdict[accountkeys[i]] IN
          IF NeedsParent(acc)
          THEN LET pg == parentdict[acct[acc].guid] IN
               IF pg \notin DOMAIN accountdict
               THEN Raise("KeyError", "_book_from_tree")
               ELSE LET parent == accountdict[pg]
                        a1 == [acct EXCEPT ![acc].parent = parent] IN
                    /\ acct' = [a1 EXCEPT ![parent].children = Append(@, acc)]
                    /\ accounts' = Append(accounts, acc)
                    /\ i' = i + 1
                    /\ pc' = pc
                    /\ UNCHANGED <<j, commodityObj, commoditydict, commodities, prices,
                                   accountdict, accountkeys, parentdict, root_account,
                                   trnObj, transactions, splitObj, book, exc>>
          ELSE /\ i' = i + 1
               /\ pc' = pc
               /\ UNCHANGED <<j, commodityObj, commoditydict, commodities, prices, acct,
                              accountdict, accountkeys, parentdict, root_account,
                              accounts, trnObj, transactions, splitObj, book, exc>>

\* _transaction_from_tree up to the Transaction(...) construction
TransactionFromTree ==
  /\ pc = "transactions"
  /\ UNCHANGED <<docvars, call, slotvars>>
  /\ IF i > Len(doc_transactions)
     THEN /\ pc' = "return"
          /\ UNCHANGED <<i, j, commodityObj, commoditydict, commodities, prices, acct,
                         accountdict, accountkeys, parentdict, root_account, accounts,
                         trnObj, transactions, splitObj, book, exc>>
     ELSE LET elt == doc_transactions[i]
              cur == commodity_lookup(commodityObj, commoditydict, elt.currency) IN
          IF ~cur.ok
          THEN Raise("KeyError", "_transaction_from_tree")
          ELSE /\ trnObj' = Append(trnObj, [currency |-> cur.ret, date |-> elt.date,
                                            splits |-> << >>])
               /\ commodityObj' = cur.objs
               /\ commoditydict' = cur.dict
               /\ j' = 1
               /\ pc' = "splits"
               /\ UNCHANGED <<i, commodities, prices, acct, accountdict, accountkeys,
                              parentdict, root_account, accounts, transactions,
                              splitObj, book, exc>>

\* account.splits.append(split) at the end of _split_from_tree
AccountAppendSplitTwice(heap, account, split) ==
  [heap EXCEPT ![account].splits = Append(Append(@, split), split)]
AccountAppendSplit(heap, account, split) ==
  [heap EXCEPT ![account].splits = Append(@, split)]

\* for subtree in tree.findall(trn:splits/trn:split): _split_from_tree and
\* transaction.splits.append(split); after the loop, transactions.append
SplitFromTree ==
  /\ pc = "splits"
  /\ UNCHANGED <<docvars, call, slotvars>>
  /\ LET trn == Len(trnObj)
         elts == doc_transactions[i].splits IN
     IF j > Len(elts)
     THEN /\ transactions' = Append(transactions, trn)
          /\ i' = i + 1
          /\ pc' = "transactions"
          /\ UNCHANGED <<j, commodityObj, commoditydict, commodities, prices, acct,
                         accountdict, accountkeys, parentdict, root_account, accounts,
                         trnObj, splitObj, book, exc>>
     ELSE LET elt == elts[j]
              split == Len(splitObj) + 1 IN
          IF elt.account \notin DOMAIN accountdict
          THEN Raise("KeyError", "_split_from_tree")
          ELSE LET account == accountdict[elt.account] IN
               /\ splitObj' = Append(splitObj,
                                     [reconciled_state |-> elt.reconciled_state,
                                      account |-> account, transaction |-> trn])
               /\ acct' = AccountAppendSplit(acct, account, split)
               /\ trnObj' = [trnObj EXCEPT ![trn].splits = Append(@, split)]
               /\ j' = j + 1
               /\ pc' = pc
               /\ UNCHANGED <<i, commodityObj, commoditydict, commodities, prices,
                              accountdict, accountkeys, parentdict, root_account,
                              accounts, transactions, book, exc>>

\* return Book(...)
BookReturn ==
  /\ pc = "return"
  /\ book' = [built |-> TRUE, prices |-> prices, transactions |-> transactions,
              root_account |-> root_account, accounts |-> accounts,
              commodities |-> commodities]
  /\ pc' = "done"
  /\ UNCHANGED <<i, j, commodityObj, commoditydict, commodities, prices, acct,
                 accountdict, accountkeys, parentdict, root_account, accounts,
                 trnObj, transactions, splitObj, exc>>
  /\ UNCHANGED <<docvars, call, slotvars>>

\* ------------------------------------------------------------ Account.walk
\* accounts.extend(children): the children go to the back of the work list
ExtendFront(worklist, children) == children \o worklist
Extend(worklist, children) == worklist \o children

\* The generator between two yields: the work list after the pop, and the
\* children list of the last yield, which the resumption appends to the work
\* list.  Before the first step: accounts = [self], nothing to extend.
NewWalk(self) == [accounts |-> <<self>>, children |-> << >>, shared |-> None,
                  cur |-> None, stopped |-> FALSE]

\* children = list(acc.children): a new list object with the same elements.
\* shared names the account whose children attribute is the same list object
\* as the yielded list, None when the yielded list is an object of its own.
ListAlias(acc) == [items |-> acct[acc].children, shared |-> acc]
ListCopy(acc) == [items |-> acct[acc].children, shared |-> None]

\* one resumption: extend (line 190), loop test, pop, copy the children, yield
WalkResume(g) ==
  LET q == Extend(g.accounts, g.children) IN
  IF q = << >>
  THEN [accounts |-> q, children |-> << >>, shared |-> None, cur |-> None,
        stopped |-> TRUE]
  ELSE [accounts |-> Tail(q), children |-> ListCopy(Head(q)).items,
        shared |-> ListCopy(Head(q)).shared, cur |-> Head(q), stopped |-> FALSE]

\* Book.walk(): self.root_account.walk(); AttributeError when there is no root
Walk ==
  /\ pc = "done"
  /\ call' = IF book.root_account = None
             THEN [op |-> "walk", error |-> TRUE]
             ELSE [op |-> "walk", error |-> FALSE, gen |-> NewWalk(book.root_account),
                   yielded |-> << >>, mutated |-> FALSE,
                   earlier |-> IF call.op = "walk" /\ ~call.error
                               THEN call.mutated \/ call.earlier ELSE FALSE]
  /\ UNCHANGED <<docvars, parsevars, slotvars>>

\* next() on the generator
WalkNext ==
  /\ pc = "done"
  /\ call.op = "walk"
  /\ ~call.error
  /\ ~call.gen.stopped
  /\ LET g == WalkResume(call.gen) IN
     call' = [call EXCEPT !.gen = g,
                          !.yielded = IF g.stopped THEN @ ELSE Append(@, g.cur)]
  /\ UNCHANGED <<docvars, parsevars, slotvars>>

\* The caller of walk() between two steps: "You can modify the list of
\* subaccounts".  It reorders or removes elements of the list of the last
\* yielded triple; the write lands in every attribute that holds that list
\* object.  mutated records that this walk's caller has done so, earlier that
\* the caller of an earlier walk on the same Book had.
Rearrangements(seq) ==
  {s \in SeqsUpTo({seq[k] : k \in 1..Len(seq)}, Len(seq)) :
     \A k, l \in 1..Len(s) : s[k] = s[l] => k = l}

MutateChildren ==
  /\ pc = "done"
  /\ call.op = "walk"
  /\ ~call.error
  /\ ~call.gen.stopped
  /\ call.gen.cur # None
  /\ \E new \in Rearrangements(call.gen.children) :
       /\ new # call.gen.children
       /\ call' = [call EXCEPT !.gen.children = new, !.mutated = TRUE]
       /\ acct' = IF call.gen.shared = None THEN acct
                  ELSE [acct EXCEPT ![call.gen.shared].children = new]
  /\ UNCHANGED <<pc, i, j, commodityObj, commoditydict, commodities, prices,
                 accountdict, accountkeys, parentdict, root_account, accounts,
                 trnObj, transactions, splitObj, book, exc>>
  /\ UNCHANGED <<docvars, slotvars>>

\* ---------------------------------------------------------- Account.fullname
\* Account.fullname(): the names from below the root down to the account.  A
\* parent chain longer than the heap is a cycle, on which the recursion never
\* returns (RecursionError): ok = FALSE.
RECURSIVE fullname(_, _)
fullname(a, fuel) ==
  IF fuel = 0 THEN [ok |-> FALSE, path |-> << >>]
  ELSE IF acct[a].parent # None
       THEN LET pfn == fullname(acct[a].parent, fuel - 1) IN
            [ok |-> pfn.ok, path |-> Append(pfn.path, acct[a].name)]
       ELSE [ok |-> TRUE, path |-> << >>]

\* -------------------------------------------------------------- find_account
\* account.name == name
NameMatchesFullname(account, name) ==
  fullname(account, Len(acct) + 1).path = <<name>>
NameMatches(account, name) == acct[account].name = name

\* for account, children, splits in self.walk(): return the first match;
\* falling off the loop returns None
RECURSIVE FindFrom(_, _)
FindFrom(g, name) ==
  LET g2 == WalkResume(g) IN
  IF g2.stopped THEN None
  ELSE IF NameMatches(g2.cur, name) THEN g2.cur
  ELSE FindFrom(g2, name)

FindAccount ==
  /\ pc = "done"
  /\ \E name \in Names :
       call' = IF book.root_account = None
               THEN [op |-> "find_account", error |-> TRUE, name |-> name]
               ELSE [op |-> "find_account", error |-> FALSE, name |-> name,
                     ret |-> FindFrom(NewWalk(book.root_account), name)]
  /\ UNCHANGED <<docvars, parsevars, slotvars>>

\* ------------------------------------------------------------------ sorted()
\* sorted(xs) with __lt__ comparing dates: a stable sort.  dateOf maps an
\* object to its date; x goes after every element that is not greater.
RECURSIVE InsertByDate(_, _, _)
InsertByDate(sorted, x, dateOf) ==
  IF sorted = << >> THEN <<x>>
  ELSE IF dateOf[x] < dateOf[sorted[Len(sorted)]]
       THEN Append(InsertByDate(SubSeq(sorted, 1, Len(sorted) - 1), x, dateOf),
                   sorted[Len(sorted)])
       ELSE Append(sorted, x)

RECURSIVE SortedByDate(_, _)
SortedByDate(xs, dateOf) ==
  IF xs = << >> THEN << >>
  ELSE InsertByDate(SortedByDate(SubSeq(xs, 1, Len(xs) - 1), dateOf), xs[Len(xs)],
                    dateOf)

RECURSIVE Concat(_)
Concat(ss) == IF ss = << >> THEN << >> ELSE Head(ss) \o Concat(Tail(ss))

\* -------------------------------------------------------------- Book.ledger
\* all(spl.reconciled_state == 'y' for spl in trn.splits)
AllReconciled(trn) ==
  \A k \in 1..Len(trnObj[trn].splits) :
     splitObj[trnObj[trn].splits[k]].reconciled_state = "y"

\* " *" if reconciled else ""
HeaderMarker(reconciled) == IF reconciled THEN " *" ELSE ""

\* "* " if not reconciled and state == 'y' else "! " if not reconciled and
\* state == 'c' else ""
SplitMarkerAlways(reconciled, state) ==
  IF state = "y" THEN "* " ELSE IF state = "c" THEN "! " ELSE ""
SplitMarker(reconciled, state) ==
  IF ~reconciled /\ state = "y" THEN "* "
  ELSE IF ~reconciled /\ state = "c" THEN "! "
  ELSE ""

\* the commodity block: name, namespace, blank
CommodityLines(b) ==
  Concat([k \in 1..Len(b.commodities) |->
            <<[kind |-> "commodity", commodity |-> b.commodities[k]],
              [kind |-> "namespace", commodity |-> b.commodities[k]],
              [kind |-> "blank"]>>])

\* the account block: full name, commodity check, blank (the optional note
\* line prints the description, which the model does not carry)
AccountLines(b) ==
  Concat([k \in 1..Len(b.accounts) |->
            <<[kind |-> "account", account |-> b.accounts[k],
               fullname |-> fullname(b.accounts[k], Len(acct) + 1).path],
              [kind |-> "check", commodity |-> acct[b.accounts[k]].commodity],
              [kind |-> "blank"]>>])

\* one transaction: the header, a line per split, a blank line.  The split
\* line carries the exchange-rate annotation when the account's commodity is
\* not the transaction's currency (an identity comparison: Commodity defines
\* no __eq__).
TransactionLines(trn) ==
  LET reconciled == AllReconciled(trn)
      spls == trnObj[trn].splits IN
  <<[kind |-> "transaction", transaction |-> trn, date |-> trnObj[trn].date,
     marker |-> HeaderMarker(reconciled)]>>
  \o [k \in 1..Len(spls) |->
        [kind |-> "split", transaction |-> trn, split |-> spls[k],
         marker |-> SplitMarker(reconciled, splitObj[spls[k]].reconciled_state),
         account |-> splitObj[spls[k]].account,
         price |-> acct[splitObj[spls[k]].account].commodity # trnObj[trn].currency]]
  \o <<[kind |-> "blank"]>>

\* ledger() raises on an account whose parent chain is a cycle (fullname) and
\* on a split of an account without commodity (commodity.fraction of None)
LedgerRaises(b) ==
  \/ \E k \in 1..Len(b.accounts) : ~fullname(b.accounts[k], Len(acct) + 1).ok
  \/ \E t \in 1..Len(b.transactions) :
       \E k \in 1..Len(trnObj[b.transactions[t]].splits) :
          LET a == splitObj[trnObj[b.transactions[t]].splits[k]].account IN
          \/ acct[a].commodity = None
          \/ ~fullname(a, Len(acct) + 1).ok

TrnDateOf == [t \in 1..Len(trnObj) |-> trnObj[t].date]

LedgerOut(b) ==
  CommodityLines(b) \o AccountLines(b)
  \o Concat([k \in 1..Len(b.transactions) |->
               TransactionLines(SortedByDate(b.transactions, TrnDateOf)[k])])

Ledger ==
  /\ pc = "done"
  /\ call' = IF LedgerRaises(book)
             THEN [op |-> "ledger", error |-> TRUE]
             ELSE [op |-> "ledger", error |-> FALSE, out |-> LedgerOut(book)]
  /\ UNCHANGED <<docvars, parsevars, slotvars>>

\* ------------------------------------------------------ Book.ledger_price_db
\* previous_date is not None and previous_date != price.date
BlankBefore(previous_date, date) == previous_date # None /\ previous_date # date

PriceIndexes(b) == [k \in 1..Len(b.prices) |-> k]
PriceDateOf(b) == [k \in 1..Len(b.prices) |-> b.prices[k].date]

\* sorted(self.prices), Price.__lt__ comparing the dates
SortedPricesUnsorted(b) == PriceIndexes(b)
SortedPrices(b) == SortedByDate(PriceIndexes(b), PriceDateOf(b))

RECURSIVE PriceLines(_, _, _)
PriceLines(b, order, previous_date) ==
  IF order = << >> THEN << >>
  ELSE LET price == b.prices[Head(order)] IN
       (IF BlankBefore(previous_date, price.date) THEN <<[kind |-> "blank"]>>
        ELSE << >>)
       \o <<[kind |-> "price", price |-> Head(order), date |-> price.date,
             commodity |-> price.commodity, currency |-> price.currency]>>
       \o PriceLines(b, Tail(order), price.date)

LedgerPriceDb ==
  /\ pc = "done"
  /\ call' = [op |-> "ledger_price_db", error |-> FALSE,
              out |-> PriceLines(book, SortedPrices(book), None)]
  /\ UNCHANGED <<docvars, parsevars, slotvars>>

\* ------------------------------------------------------------ _slots_from_tree
\* The recursion is an explicit stack of calls, one frame per slots subtree
\* being decoded: the mapping built so far and the key under which the parent
\* stores the result.  The slot elements arrive one at a time; slotdoc records
\* what the input has held so far.
KnownTags == {"integer", "double", "numeric", "string", "guid", "gdate", "timespec",
              "frame"}
Tags == KnownTags \cup {"list"}
Keys == {"k1", "k2"}

\* the type dispatch: the Python type of the stored value, "frame" for the
\* recursive call, "raise" for RuntimeError("Unknown slot type")
SlotDispatchLenient(type) ==
  IF type \in {"integer", "double"} THEN "int"
  ELSE IF type = "numeric" THEN "Decimal"
  ELSE IF type = "gdate" \/ type = "timespec" THEN "datetime"
  ELSE IF type = "frame" THEN "frame"
  ELSE "str"
SlotDispatch(type) ==
  IF type \in {"integer", "double"} THEN "int"
  ELSE IF type = "numeric" THEN "Decimal"
  ELSE IF type \in {"string", "guid"} THEN "str"
  ELSE IF type = "gdate" \/ type = "timespec" THEN "datetime"
  ELSE IF type = "frame" THEN "frame"
  ELSE "raise"

SlotIdle == [status |-> "idle"]
\* unknown: the nesting depth of the call that met a tag outside KnownTags, 0 if none
NoSlotDoc == [absent |-> FALSE, n |-> 0, unknown |-> 0, malformed |-> FALSE]

\* _slots_from_tree(tree): {} at once when tree is None
SlotsFromTree ==
  /\ slotres.status = "idle"
  /\ \E absent \in BOOLEAN :
       /\ slotdoc' = [slotdoc EXCEPT !.absent = absent]
       /\ IF absent
          THEN /\ slotres' = [status |-> "returned", slots |-> EmptyDict]
               /\ slotstack' = << >>
          ELSE /\ slotres' = [status |-> "running"]
               /\ slotstack' = <<[slots |-> EmptyDict, key |-> ""]>>
  /\ UNCHANGED <<docvars, parsevars, call>>

\* one iteration of "for elt in tree.findall('slot')" in the innermost call.
\* wellformed: whether int(), _parse_number() or parse_date() accepts the text.
SlotElement ==
  /\ slotres.status = "running"
  /\ slotdoc.n < MaxSlots
  /\ \E key \in Keys, type \in Tags, wellformed \in BOOLEAN :
       LET top == Len(slotstack)
           kind == SlotDispatch(type) IN
       /\ type = "frame" => top <= MaxDepth
       /\ slotdoc' = [slotdoc EXCEPT !.n = @ + 1,
                                     !.unknown = IF type \notin KnownTags THEN top
                                                 ELSE @,
                                     !.malformed = @ \/ (~wellformed /\ type \in
                                        {"integer", "double", "numeric", "gdate",
                                         "timespec"})]
       /\ IF kind = "raise"
          THEN /\ slotres' = [status |-> "RuntimeError"]
               /\ slotstack' = << >>
          ELSE IF kind = "frame"
          THEN /\ slotstack' = Append(slotstack, [slots |-> EmptyDict, key |-> key])
               /\ slotres' = slotres
          ELSE IF kind \in {"int", "Decimal", "datetime"} /\ ~wellformed
          THEN /\ slotres' = [status |-> "ValueError"]
               /\ slotstack' = << >>
          ELSE /\ slotstack' = [slotstack EXCEPT ![top].slots =
                                  DictSet(@, key, [type |-> kind])]
               /\ slotres' = slotres
  /\ UNCHANGED <<docvars, parsevars, call>>

\* the loop of the innermost call ends: return slots, which the caller stores
\* under the frame slot's key (or which is the result of the outermost call)
SlotsReturn ==
  /\ slotres.status = "running"
  /\ LET top == Len(slotstack)
         ret == slotstack[top].slots IN
     IF top = 1
     THEN /\ slotres' = [status |-> "returned", slots |-> ret]
          /\ slotstack' = << >>
     ELSE /\ slotstack' = [SubSeq(slotstack, 1, top - 1) EXCEPT ![top - 1].slots =
                             DictSet(@, slotstack[top].key,
                                     [type |-> "frame", slots |-> ret])]
          /\ slotres' = slotres
  /\ UNCHANGED <<slotdoc, docvars, parsevars, call>>

\* ------------------------------------------------------------------ documents
Account(guid, actype, parent, name, commodity) ==
  [guid |-> guid, actype |-> actype, parent |-> parent, name |-> name,
   commodity |-> commodity]

\* the fixed parts of the documents of a specification that varies one kind
OneDecl == <<USD>>
OnePrice == <<[commodity |-> EUR, currency |-> USD, date |-> 1]>>
OneTrn == <<[currency |-> USD, date |-> 1,
             splits |-> <<[account |-> 1, reconciled_state |-> "n"]>>]>>
TwoAccounts == <<Account(1, "ROOT", None, "a", USD), Account(2, "BANK", 1, "b", USD)>>

\* account k has identifier k; shape[k] = 0 makes it the ROOT, else names its parent
TreeDoc(shape, names) ==
  [k \in DOMAIN shape |->
     IF shape[k] = 0 THEN Account(k, "ROOT", None, names[k], USD)
     ELSE Account(k, "BANK", shape[k], names[k], USD)]

TreeDocs(max) ==
  UNION {{TreeDoc(shape, [k \in 1..n |-> "a"]) : shape \in [1..n -> 0..max]} :
         n \in 0..max}

\* a valid document: unique identifiers, exactly one ROOT, every other
\* account's parent chain leads to the ROOT
RECURSIVE ReachesRoot(_, _, _)
ReachesRoot(d, k, fuel) ==
  IF d[k].actype = "ROOT" THEN TRUE
  ELSE IF fuel = 0 THEN FALSE
  ELSE \E p \in 1..Len(d) : d[p].guid = d[k].parent /\ ReachesRoot(d, p, fuel - 1)

ValidDoc(d) ==
  /\ \A k, l \in 1..Len(d) : d[k].guid = d[l].guid => k = l
  /\ Cardinality({k \in 1..Len(d) : d[k].actype = "ROOT"}) = 1
  /\ \A k \in 1..Len(d) : ReachesRoot(d, k, Len(d))

ValidDocs(max) ==
  UNION {{TreeDoc(d0, names) : names \in [1..Len(d0) -> Names]} :
         d0 \in {[k \in DOMAIN d |-> IF d[k].actype = "ROOT" THEN 0 ELSE d[k].parent] :
                 d \in {t \in TreeDocs(max) : ValidDoc(t)}}}

\* identifiers free to repeat
RefElts(max) ==
  {Account(g, "ROOT", None, "a", USD) : g \in 1..max}
  \cup {Account(g, "BANK", p, "a", USD) : g \in 1..max, p \in 1..max}
RefDocs(max) == SeqsUpTo(RefElts(max), max)

\* every order of the account elements: unique identifiers, no link between an
\* element's identifier and its position
PermDocs(max) ==
  {d \in RefDocs(max) : \A k, l \in 1..Len(d) : d[k].guid = d[l].guid => k = l}

\* commodity references
CurrencyPairs == {USD, EUR}
CommodityPriceDocs(max) ==
  SeqsUpTo([commodity : CurrencyPairs, currency : CurrencyPairs, date : {1}], max)

PriceDocs(max) == SeqsUpTo([commodity : {EUR}, currency : {USD}, date : Dates], max)

\* transactions: at most MaxTrns of them, with at most MaxSplits splits in all
ThreeAccounts == <<Account(1, "ROOT", None, "a", USD), Account(2, "BANK", 1, "a", USD),
                   Account(3, "BANK", 2, "b", EUR)>>
TrnDates == {1, 2}
SplitsOf(flat, t) ==
  LET sel == SelectSeq(flat, LAMBDA e : e.trn = t) IN
  [k \in 1..Len(sel) |-> [account |-> sel[k].account,
                          reconciled_state |-> sel[k].reconciled_state]]
TrnDocs(maxTrns, maxSplits) ==
  UNION {{[t \in 1..n |-> [currency |-> USD, date |-> dates[t],
                            splits |-> SplitsOf(flat, t)]] :
            dates \in [1..n -> TrnDates],
            flat \in {f \in SeqsUpTo([trn : 1..n, account : {2, 3},
                                      reconciled_state : States], maxSplits) :
                        \A k \in 1..(Len(f) - 1) : f[k].trn <= f[k + 1].trn}} :
         n \in 0..maxTrns}

\* ------------------------------------------------------------ specifications
InitParse ==
  /\ pc = "commodities" /\ i = 1 /\ j = 1
  /\ commodityObj = << >> /\ commoditydict = EmptyDict /\ commodities = << >>
  /\ prices = << >>
  /\ acct = << >> /\ accountdict = EmptyDict /\ accountkeys = << >>
  /\ parentdict = EmptyDict /\ root_account = None /\ accounts = << >>
  /\ trnObj = << >> /\ transactions = << >> /\ splitObj = << >>
  /\ book = NoBook /\ exc = NoExc /\ call = NoCall
  /\ slotdoc = NoSlotDoc /\ slotstack = << >> /\ slotres = SlotIdle

\* documents whose account elements take every shape
Init ==
  /\ doc_commodities = OneDecl /\ doc_prices = OnePrice
  /\ doc_accounts \in TreeDocs(MaxAccounts)
  /\ doc_transactions = OneTrn
  /\ InitParse

\* valid documents, the accounts' names varying
ValidInit ==
  /\ doc_commodities = OneDecl /\ doc_prices = OnePrice
  /\ doc_accounts \in ValidDocs(MaxAccounts)
  /\ doc_transactions = OneTrn
  /\ InitParse

\* account identifiers that may repeat
RefInit ==
  /\ doc_commodities = OneDecl /\ doc_prices = OnePrice
  /\ doc_accounts \in RefDocs(MaxRefAccounts)
  /\ doc_transactions = OneTrn
  /\ InitParse

\* account elements in every order
PermInit ==
  /\ doc_commodities = OneDecl /\ doc_prices = OnePrice
  /\ doc_accounts \in PermDocs(MaxPermAccounts)
  /\ doc_transactions = OneTrn
  /\ InitParse

\* declarations, prices, an account and a transaction naming commodities
CommodityInit ==
  /\ doc_commodities \in SeqsUpTo(CurrencyPairs, MaxDecls)
  /\ doc_prices \in CommodityPriceDocs(MaxRefPrices)
  /\ \E c \in CurrencyPairs :
       doc_accounts = <<Account(1, "ROOT", None, "a", USD), Account(2, "BANK", 1, "b", c)>>
  /\ \E c \in CurrencyPairs :
       doc_transactions = <<[currency |-> c, date |-> 1,
                             splits |-> <<[account |-> 2, reconciled_state |-> "n"]>>]>>
  /\ InitParse

\* price records with every order of dates
PriceInit ==
  /\ doc_commodities = OneDecl
  /\ doc_prices \in PriceDocs(MaxPrices)
  /\ doc_accounts = TwoAccounts
  /\ doc_transactions = OneTrn
  /\ InitParse

\* transactions and splits
LedgerInit ==
  /\ doc_commodities = <<USD, EUR>> /\ doc_prices = OnePrice
  /\ doc_accounts = ThreeAccounts
  /\ doc_transactions \in TrnDocs(MaxTrns, MaxSplits)
  /\ InitParse

Next ==
  \/ CommodityFromTree
  \/ PriceFromTree
  \/ AccountFromTree
  \/ LinkAccount
  \/ TransactionFromTree
  \/ SplitFromTree
  \/ BookReturn
  \/ Walk
  \/ WalkNext
  \/ FindAccount
  \/ Ledger
  \/ LedgerPriceDb

Spec == Init /\ [][Next]_vars
ValidSpec == ValidInit /\ [][Next]_vars
RefSpec == RefInit /\ [][Next]_vars
PermSpec == PermInit /\ [][Next]_vars
CommoditySpec == CommodityInit /\ [][Next]_vars
PriceSpec == PriceInit /\ [][Next]_vars
LedgerSpec == LedgerInit /\ [][Next]_vars

\* the Book's methods with a caller that modifies the lists walk() yields
CallerNext == Next \/ MutateChildren
CallerSpec == Init /\ [][CallerNext]_vars

\* the slot decoder on its own
SlotInit ==
  /\ doc_commodities = << >> /\ doc_prices = << >> /\ doc_accounts = << >>
  /\ doc_transactions = << >>
  /\ InitParse

SlotNext == SlotsFromTree \/ SlotElement \/ SlotsReturn

SlotSpec == SlotInit /\ [][SlotNext]_vars

\* ===================================================================== claims
\* the depth of account element k below the ROOT of a valid document
RECURSIVE DocDepth(_, _, _)
DocDepth(d, k, fuel) ==
  IF d[k].actype = "ROOT" \/ fuel = 0 THEN 0
  ELSE 1 + DocDepth(d, CHOOSE q \in 1..Len(d) : d[q].guid = d[k].parent, fuel - 1)

\* the accounts reachable from the accounts of S by child edges
RECURSIVE Reach(_, _)
Reach(S, fuel) ==
  IF fuel = 0 THEN S
  ELSE Reach(S \cup UNION {{acct[a].children[k] : k \in 1..Len(acct[a].children)} :
                            a \in S}, fuel - 1)

\* C1: on a Book built from a valid document, walk() from the root yields no
\* account twice, yields every non-ROOT account after its parent, yields the
\* accounts in order of depth, and has yielded every account when it stops.
C1_WalkBreadthFirst ==
  (book.built /\ ValidDoc(doc_accounts) /\ call.op = "walk") =>
    /\ ~call.error
    /\ LET y == call.yielded
           d == doc_accounts IN
       /\ \A k, l \in 1..Len(y) : y[k] = y[l] => k = l
       /\ \A k \in 1..Len(y) :
            d[y[k]].actype # "ROOT" =>
              \E m \in 1..(k - 1) : d[y[m]].guid = d[y[k]].parent
       /\ \A k, l \in 1..Len(y) :
            k < l => DocDepth(d, y[k], Len(d)) <= DocDepth(d, y[l], Len(d))
       /\ call.gen.stopped => {y[k] : k \in 1..Len(y)} = 1..Len(d)

\* a finished walk of a root with two children, the first of which has a child
C1_Witness ==
  /\ book.built /\ ValidDoc(doc_accounts)
  /\ call.op = "walk" /\ ~call.error /\ call.gen.stopped
  /\ Len(call.yielded) = 4
  /\ Len(acct[book.root_account].children) = 2
  /\ Len(acct[acct[book.root_account].children[1]].children) = 1

\* every non-ROOT account element names the identifier of an account element
ParentsResolve(d) ==
  \A k \in 1..Len(d) :
     d[k].actype # "ROOT" => \E q \in 1..Len(d) : d[q].guid = d[k].parent

\* C2: a Book assembled from account elements whose parent identifiers all
\* resolve has exactly one ROOT account, which has no parent, and every other
\* account has a parent and is reachable from the ROOT by child edges.
C2_AssembledTree ==
  (book.built /\ ParentsResolve(doc_accounts)) =>
    /\ Cardinality({a \in 1..Len(acct) : acct[a].actype = "ROOT"}) = 1
    /\ book.root_account # None
    /\ acct[book.root_account].parent = None
    /\ \A a \in 1..Len(acct) :
         a # book.root_account =>
           /\ acct[a].parent # None
           /\ a \in Reach({book.root_account}, Len(acct))

\* the commodity references built so far: the pair an element names, with the
\* Commodity instance its entity holds (entity k is built from element k)
NamedRefs ==
  {<<doc_accounts[a].commodity, acct[a].commodity>> :
     a \in {x \in 1..Len(acct) : acct[x].actype # "ROOT"}}
  \cup {<<doc_transactions[t].currency, trnObj[t].currency>> : t \in 1..Len(trnObj)}
  \cup {<<doc_prices[k].commodity, prices[k].commodity>> : k \in 1..Len(prices)}
  \cup {<<doc_prices[k].currency, prices[k].currency>> : k \in 1..Len(prices)}

\* C3: at every point of the parse, two references naming the same
\* (namespace, identifier) pair hold the same Commodity instance, and that
\* instance carries the pair.
C3_CommodityIdentity ==
  /\ \A r1, r2 \in NamedRefs : r1[1] = r2[1] => r1[2] = r2[2]
  /\ \A r \in NamedRefs : commodityObj[r[2]] = [space |-> r[1][1], name |-> r[1][2]]

\* EUR is never declared, two price records, the account and the transaction
\* name it, and all hold the instance the first price record created
C3_Witness ==
  /\ book.built
  /\ \A k \in 1..Len(doc_commodities) : doc_commodities[k] # EUR
  /\ Len(prices) >= 2
  /\ doc_prices[1].commodity = EUR /\ doc_prices[2].currency = EUR
  /\ doc_accounts[2].commodity = EUR /\ doc_transactions[1].currency = EUR
  /\ prices[2].currency = prices[1].commodity
  /\ acct[2].commodity = prices[1].commodity
  /\ trnObj[1].currency = prices[1].commodity

\* the pairs of the declarations and of the price records processed so far
DeclaredSoFar == {doc_commodities[k] : k \in 1..Len(commodities)}
PricedSoFar ==
  {doc_prices[k].commodity : k \in 1..Len(prices)}
  \cup {doc_prices[k].currency : k \in 1..Len(prices)}

\* C4 as stated: an Account or a Transaction that names a pair missing from
\* the registry gets a new Commodity and the parse continues, so the parse
\* never ends in the KeyError of a commodity lookup.
C4_GetOrCreateEverywhere ==
  ~(exc.type = "KeyError"
    /\ exc.at \in {"_account_from_tree", "_transaction_from_tree"})

\* C4 amended: only price records extend the registry.  Every processed price
\* record holds the registered instances of its two pairs; the registry holds
\* exactly the declared pairs and the pairs of the processed price records; an
\* Account or a Transaction naming a pair outside the registry ends the parse
\* with KeyError, and a Book is built only if none does.
C4_OnlyPricesGetOrCreate ==
  /\ \A k \in 1..Len(prices) :
       /\ doc_prices[k].commodity \in DOMAIN commoditydict
       /\ doc_prices[k].currency \in DOMAIN commoditydict
       /\ prices[k].commodity = commoditydict[doc_prices[k].commodity]
       /\ prices[k].currency = commoditydict[doc_prices[k].currency]
  /\ DOMAIN commoditydict = DeclaredSoFar \cup PricedSoFar
  /\ (exc.type = "KeyError" /\ exc.at = "_account_from_tree") =>
       doc_accounts[i].commodity \notin DOMAIN commoditydict
  /\ (exc.type = "KeyError" /\ exc.at = "_transaction_from_tree") =>
       doc_transactions[i].currency \notin DOMAIN commoditydict
  /\ pc = "error" => ~book.built
  /\ book.built =>
       /\ \A k \in 1..Len(doc_accounts) :
            doc_accounts[k].actype # "ROOT" =>
              doc_accounts[k].commodity \in DeclaredSoFar \cup PricedSoFar
       /\ \A t \in 1..Len(doc_transactions) :
            doc_transactions[t].currency \in DeclaredSoFar \cup PricedSoFar

\* a price record has registered USD, which no declaration names, and the
\* transaction's undeclared EUR has ended the parse
C4_Witness ==
  /\ exc.type = "KeyError" /\ exc.at = "_transaction_from_tree"
  /\ doc_transactions[i].currency = EUR
  /\ USD \in DOMAIN commoditydict
  /\ USD \notin DeclaredSoFar
  /\ Len(acct) = 2

\* the number of places of seq that hold x
Occ(seq, x) == Cardinality({k \in 1..Len(seq) : seq[k] = x})

RECURSIVE SumLen(_)
SumLen(ss) == IF ss = << >> THEN 0 ELSE Len(Head(ss)) + SumLen(Tail(ss))

\* C5: a Book is returned only if every non-ROOT account element's parent
\* identifier and every split element's account reference is the identifier
\* of an account element of the document.
C5_UnresolvedAborts ==
  book.built =>
    /\ ParentsResolve(doc_accounts)
    /\ \A t \in 1..Len(doc_transactions) :
         \A k \in 1..Len(doc_transactions[t].splits) :
            \E q \in 1..Len(doc_accounts) :
               doc_accounts[q].guid = doc_transactions[t].splits[k].account

\* C6: in a built Book every split element has its Split, which is held once
\* by the splits list of its own transaction and of no other, once by the
\* splits list of its own account and of no other; its transaction is in the
\* Book and its account is the one its element names.
C6_SplitOwnership ==
  book.built =>
    /\ Len(splitObj) = SumLen([t \in 1..Len(doc_transactions) |->
                                 doc_transactions[t].splits])
    /\ \A s \in 1..Len(splitObj) :
         /\ \A t \in 1..Len(trnObj) :
              Occ(trnObj[t].splits, s) = IF t = splitObj[s].transaction THEN 1 ELSE 0
         /\ \A a \in 1..Len(acct) :
              Occ(acct[a].splits, s) = IF a = splitObj[s].account THEN 1 ELSE 0
         /\ Occ(book.transactions, splitObj[s].transaction) = 1
    /\ \A t \in 1..Len(trnObj) :
         \A k \in 1..Len(trnObj[t].splits) :
            acct[splitObj[trnObj[t].splits[k]].account].guid
              = doc_transactions[t].splits[k].account

\* a transaction of two splits in two accounts
C6_Witness ==
  /\ book.built
  /\ Len(splitObj) = 2
  /\ splitObj[1].transaction = splitObj[2].transaction
  /\ splitObj[1].account # splitObj[2].account

\* the header line of transaction trn in a report
HeaderOf(out, trn) ==
  out[CHOOSE n \in 1..Len(out) : out[n].kind = "transaction" /\ out[n].transaction = trn]

\* C9: in the ledger report every transaction has one header line, which
\* carries the marker exactly when all splits of the transaction element are
\* in state 'y'; every split has one line, and a split line that carries a
\* marker ('* ' for state 'y', '! ' for state 'c') belongs to a transaction
\* whose header carries none.
C9_ReconciledMarkers ==
  (call.op = "ledger" /\ ~call.error) =>
    LET out == call.out IN
    /\ \A t \in 1..Len(doc_transactions) :
         Cardinality({n \in 1..Len(out) :
                        out[n].kind = "transaction" /\ out[n].transaction = t}) = 1
    /\ \A s \in 1..Len(splitObj) :
         Cardinality({n \in 1..Len(out) :
                        out[n].kind = "split" /\ out[n].split = s}) = 1
    /\ \A n \in 1..Len(out) :
         /\ out[n].kind = "transaction" =>
              /\ out[n].marker \in {" *", ""}
              /\ out[n].marker = " *" <=>
                   \A k \in 1..Len(doc_transactions[out[n].transaction].splits) :
                      doc_transactions[out[n].transaction].splits[k].reconciled_state
                        = "y"
         /\ out[n].kind = "split" =>
              /\ out[n].marker \in {"* ", "! ", ""}
              /\ out[n].marker = "* " =>
                   splitObj[out[n].split].reconciled_state = "y"
              /\ out[n].marker = "! " =>
                   splitObj[out[n].split].reconciled_state = "c"
              /\ out[n].marker # "" => HeaderOf(out, out[n].transaction).marker = ""

\* a report with a marked header over a reconciled split and, in another
\* transaction, a split line marked as cleared
C9_Witness ==
  /\ call.op = "ledger" /\ ~call.error
  /\ \E n, m \in 1..Len(call.out) :
       /\ call.out[n].kind = "split" /\ call.out[n].marker = ""
       /\ HeaderOf(call.out, call.out[n].transaction).marker = " *"
       /\ call.out[m].kind = "split" /\ call.out[m].marker = "! "

\* C10: the price report has one line per price record, in non-decreasing
\* date order; two price lines that follow each other directly have the same
\* date, and a blank line stands only between two price lines of distinct dates.
C10_PriceDbGrouping ==
  call.op = "ledger_price_db" =>
    LET out == call.out
        lines == SelectSeq(out, LAMBDA l : l.kind = "price") IN
    /\ \A k \in 1..Len(doc_prices) :
         Cardinality({n \in 1..Len(lines) : lines[n].price = k}) = 1
    /\ \A n \in 1..Len(lines) : lines[n].date = doc_prices[lines[n].price].date
    /\ \A n \in 1..(Len(lines) - 1) : lines[n].date <= lines[n + 1].date
    /\ \A n \in 1..Len(out) :
         /\ (n < Len(out) /\ out[n].kind = "price" /\ out[n + 1].kind = "price") =>
              out[n].date = out[n + 1].date
         /\ out[n].kind = "blank" =>
              /\ 1 < n /\ n < Len(out)
              /\ out[n - 1].kind = "price" /\ out[n + 1].kind = "price"
              /\ out[n - 1].date # out[n + 1].date

\* three price records out of date order, two of them of the same date
C10_Witness ==
  /\ call.op = "ledger_price_db"
  /\ Len(doc_prices) = 3
  /\ doc_prices[1].date > doc_prices[2].date
  /\ doc_prices[3].date = doc_prices[1].date
  /\ Len(call.out) = 4
  /\ call.out[2].kind = "blank"

\* the breadth-first order of a valid document, from the document alone: the
\* ROOT, then level by level the children of each account in document order
ChildrenOf(d, k) ==
  SelectSeq([q \in 1..Len(d) |-> q],
            LAMBDA q : d[q].actype # "ROOT" /\ d[q].parent = d[k].guid)

RECURSIVE Levels(_, _, _)
Levels(d, level, fuel) ==
  IF level = << >> \/ fuel = 0 THEN << >>
  ELSE level \o Levels(d, Concat([n \in 1..Len(level) |-> ChildrenOf(d, level[n])]),
                       fuel - 1)

BfsOrder(d) ==
  Levels(d, <<CHOOSE k \in 1..Len(d) : d[k].actype = "ROOT">>, Len(d))

\* C8: find_account(name) on a Book of a valid document returns the first
\* account of the breadth-first order whose name element equals name, and
\* None, without an exception, when no account has that name.
C8_FindAccountFirstMatch ==
  (call.op = "find_account" /\ ValidDoc(doc_accounts)) =>
    /\ ~call.error
    /\ LET order == BfsOrder(doc_accounts)
           hits == {n \in 1..Len(order) : doc_accounts[order[n]].name = call.name} IN
       IF hits = {} THEN call.ret = None
       ELSE call.ret = order[CHOOSE n \in hits : \A m \in hits : n <= m]

\* the match is found two levels below the root, where its full name is not
\* its name, and a later account has the same name
C8_Witness ==
  /\ call.op = "find_account" /\ ~call.error
  /\ call.ret # None
  /\ DocDepth(doc_accounts, call.ret, Len(doc_accounts)) = 2
  /\ \E q \in 1..Len(doc_accounts) :
       q # call.ret /\ doc_accounts[q].name = call.name

\* C7: a slot value whose type tag is outside the known ones, met at any
\* depth, ends the decoding with RuntimeError and no mapping, partial or
\* whole, survives; only a decoding that met none returns a mapping; an absent
\* slots subtree returns the empty mapping.
C7_UnknownSlotTypeFatal ==
  /\ slotdoc.unknown # 0 => (slotres.status = "RuntimeError" /\ slotstack = << >>)
  /\ slotres.status = "returned" => slotdoc.unknown = 0
  /\ (slotdoc.absent /\ slotres.status # "idle") =>
       slotres = [status |-> "returned", slots |-> EmptyDict]

\* the unknown tag was met inside a frame inside a frame
C7_Witness ==
  /\ slotdoc.unknown >= 3
  /\ slotres.status = "RuntimeError"

\* ------------------------------------------------------------------------ C11
\* C11: account linking does not depend on document order.  For the account
\* elements in any order (unique identifiers), once pass 2 has completed, every
\* non-ROOT account's parent reference is the account whose identifier is its
\* recorded parent identifier, the account is exactly once in that parent's
\* child list and exactly once in the accounts collection, whether the parent
\* element comes before or after the child.
PassTwoDone == pc \in {"transactions", "splits", "return", "done"}

C11_LinkingOrderIndependent ==
  PassTwoDone =>
    /\ Len(acct) = Len(doc_accounts)
    /\ \A k \in 1..Len(doc_accounts) :
         doc_accounts[k].actype # "ROOT" =>
           \E p \in 1..Len(doc_accounts) :
             /\ doc_accounts[p].guid = doc_accounts[k].parent
             /\ acct[p].guid = parentdict[acct[k].guid]
             /\ acct[k].parent = p
             /\ Occ(acct[p].children, k) = 1
             /\ Occ(accounts, k) = 1

\* a Book from a document whose elements are out of identifier order, with one
\* child declared before its parent and one declared after its parent
C11_Witness ==
  /\ book.built
  /\ \E k \in 1..Len(doc_accounts) : doc_accounts[k].guid # k
  /\ \E k, p \in 1..Len(acct) :
       k < p /\ acct[k].actype # "ROOT" /\ acct[k].parent = p
       /\ Occ(acct[p].children, k) = 1
  /\ \E k, p \in 1..Len(acct) :
       k > p /\ acct[k].actype # "ROOT" /\ acct[k].parent = p
       /\ Occ(acct[p].children, k) = 1

\* ------------------------------------------------------------------------ C12
\* C12: when a caller reorders or removes elements of the children list that
\* walk() yielded, between two steps of the traversal, no account's own
\* children list and no parent reference changes: they stay what the document
\* made them.  A later, fresh walk() on the same Book, whose own lists the
\* caller leaves alone, yields the sequence of a walk with no caller mutation:
\* the breadth-first order of the document.
ParentOf(d, k) ==
  IF d[k].actype = "ROOT" THEN None
  ELSE CHOOSE p \in 1..Len(d) : d[p].guid = d[k].parent

C12_CallerMutationIsolated ==
  book.built =>
    LET d == doc_accounts IN
    /\ \A k \in 1..Len(acct) :
         /\ acct[k].children = ChildrenOf(d, k)
         /\ acct[k].parent = ParentOf(d, k)
    /\ (ValidDoc(d) /\ call.op = "walk") =>
         /\ ~call.error
         /\ ~call.mutated =>
              /\ Len(call.yielded) <= Len(BfsOrder(d))
              /\ call.yielded = SubSeq(BfsOrder(d), 1, Len(call.yielded))
              /\ call.gen.stopped => call.yielded = BfsOrder(d)

\* a finished fresh walk over four accounts, on a Book where the caller of an
\* earlier walk had modified a yielded list
C12_Witness ==
  /\ book.built /\ ValidDoc(doc_accounts)
  /\ call.op = "walk" /\ ~call.error
  /\ call.earlier /\ ~call.mutated
  /\ call.gen.stopped
  /\ Len(call.yielded) = 4

====
